---- MODULE Spec2Model ----
(***************************************************************************)
(* simplepir-rs: ring elements mod q (element.rs), the Regev encryption    *)
(* scheme and the single-server PIR protocol built on it (regev.rs).       *)
(*                                                                         *)
(* The library is a set of functions; a state of the model is one call of  *)
(* the library: the function called (op), its inputs (args) and what it    *)
(* returned (ret), next to the session's parameter set and secret.  The    *)
(* test drivers of regev.rs are calls of their own: they chain encrypt,    *)
(* query, answer and decrypt as the source does and keep the intermediate  *)
(* values in args.                                                         *)
(*                                                                         *)
(* Machine words are WordBits wide instead of 64, so that every u64        *)
(* overflow of the code has a counterpart the model checker can reach.     *)
(* An overflowing u64 operation panics when the build has overflow checks  *)
(* (debug profile) and wraps when it has none (release profile).           *)
(***************************************************************************)
EXTENDS Integers, Sequences, FiniteSets, TLC

\* Width of the machine word standing for u64.
WordBits == 5
\* Largest modulus of a parameter set.
MaxQ == 7
\* Largest plaintext modulus of a parameter set.
MaxP == 3
\* Largest database of the PIR protocol.
MaxDb == 2
\* Largest modulus of a server's parameter set: the least q whose sums
\* (q - 1) + (q - 1) pass the machine word.
MaxServerQ == 17

VARIABLES
    overflow_checks,  \* build profile: TRUE = overflow panics, FALSE = wraps
    params,           \* regev.rs Params: a, q, p, n, m
    secret,           \* the session's secret vector
    op,               \* the function last called
    args,             \* its inputs
    ret               \* its result

vars == <<overflow_checks, params, secret, op, args, ret>>

U64_MAX == 2^WordBits - 1

(***************************************************************************)
(* Panics.  A failed assert!, an out-of-bounds index or a checked overflow *)
(* unwinds and no value is produced; Panic stands for "no Element", -1     *)
(* for "no u64", PanicVec and PanicDigits for "no Vec".  Every operation   *)
(* is strict in them.                                                      *)
(***************************************************************************)
Panic == [q |-> -1, uint |-> -1]
IsPanic(e) == e.q = -1
PanicVec == <<Panic>>
IsPanicVec(v) == Len(v) = 1 /\ IsPanic(v[1])
PanicDigits == <<-1>>
IsPanicDigits(v) == Len(v) = 1 /\ v[1] = -1

\* u64 `+`: panics on overflow with overflow checks, wraps without.
u64_add(x, y) ==
    IF x < 0 \/ y < 0 THEN -1
    ELSE IF x + y <= U64_MAX THEN x + y
    ELSE IF overflow_checks THEN -1
    ELSE (x + y) % (U64_MAX + 1)

\* u64 `*`: panics on overflow with overflow checks, wraps without.
u64_mul(x, y) ==
    IF x < 0 \/ y < 0 THEN -1
    ELSE IF x * y <= U64_MAX THEN x * y
    ELSE IF overflow_checks THEN -1
    ELSE (x * y) % (U64_MAX + 1)

(***************************************************************************)
(* element.rs                                                              *)
(***************************************************************************)
\* Mutation of from: the range check admits uint = q.
from_admits_q(q, uint) ==
    IF uint < 0 \/ ~(q < U64_MAX) \/ ~(uint <= q) THEN Panic
    ELSE [q |-> q, uint |-> uint]

\* Element::from
from(q, uint) ==
    IF uint < 0 \/ ~(q < U64_MAX) \/ ~(uint < q) THEN Panic
    ELSE [q |-> q, uint |-> uint]

\* Element::zero
zero(q) == [q |-> q, uint |-> 0]

\* impl Add for Element
add(a, b) ==
    IF IsPanic(a) \/ IsPanic(b) \/ a.q # b.q THEN Panic
    ELSE LET s == u64_add(a.uint, b.uint)
         IN  IF s < 0 \/ a.q = 0 THEN Panic
             ELSE [q |-> a.q, uint |-> s % a.q]

\* impl AddAssign for Element: the new value of self
add_assign(a, b) ==
    IF IsPanic(a) \/ IsPanic(b) \/ a.q # b.q THEN Panic
    ELSE LET s == u64_add(a.uint, b.uint)
         IN  IF s < 0 \/ a.q = 0 THEN Panic
             ELSE [q |-> a.q, uint |-> s % a.q]

\* impl Sub for Element
sub(a, b) ==
    IF IsPanic(a) \/ IsPanic(b) \/ a.q # b.q THEN Panic
    ELSE IF a.uint < b.uint
         THEN LET d == b.uint - a.uint
              IN  IF a.q - d < 0
                  THEN (IF overflow_checks THEN Panic
                        ELSE [q |-> a.q, uint |-> (a.q - d) % (U64_MAX + 1)])
                  ELSE [q |-> a.q, uint |-> a.q - d]
         ELSE [q |-> a.q, uint |-> a.uint - b.uint]

\* impl SubAssign for Element: the new value of self
sub_assign(a, b) ==
    IF IsPanic(a) \/ IsPanic(b) \/ a.q # b.q THEN Panic
    ELSE IF a.uint < b.uint
         THEN LET d == b.uint - a.uint
              IN  IF a.q - d < 0
                  THEN (IF overflow_checks THEN Panic
                        ELSE [q |-> a.q, uint |-> (a.q - d) % (U64_MAX + 1)])
                  ELSE [q |-> a.q, uint |-> a.q - d]
         ELSE [q |-> a.q, uint |-> a.uint - b.uint]

\* impl Mul for Element
mul(a, b) ==
    IF IsPanic(a) \/ IsPanic(b) \/ a.q # b.q THEN Panic
    ELSE LET t == u64_mul(a.uint, b.uint)
         IN  IF t < 0 \/ a.q = 0 THEN Panic
             ELSE [q |-> a.q, uint |-> t % a.q]

\* impl MulAssign for Element: the new value of self
mul_assign(a, b) ==
    IF IsPanic(a) \/ IsPanic(b) \/ a.q # b.q THEN Panic
    ELSE LET t == u64_mul(a.uint, b.uint)
         IN  IF t < 0 \/ a.q = 0 THEN Panic
             ELSE [q |-> a.q, uint |-> t % a.q]

\* gen_uniform_rand: the rejection threshold `min`
uniform_min(q) == (U64_MAX - q) % q

\* gen_uniform_rand: the raw draws the loop breaks on
AcceptedDraws(q) == {r \in 0..U64_MAX : r >= uniform_min(q)}

\* Element::gen_uniform_rand, given the raw draw r that ended the loop
gen_uniform_rand(q, r) == from(q, r % q)

\* ((x) as f64).log(p as f64).ceil() as usize: ln(0) is -inf, which the
\* cast saturates to 0; otherwise the least k with p^k >= x.
RECURSIVE CeilLogFrom(_, _, _, _)
CeilLogFrom(p, x, k, pow) ==
    IF pow >= x THEN k ELSE CeilLogFrom(p, x, k + 1, pow * p)

num_digits(q, p) == CeilLogFrom(p, q - 1, 0, 1)

\* Element::decomposed: the while loop; digits[i] is bounds-checked
RECURSIVE decomposed_loop(_, _, _, _)
decomposed_loop(digits, n, i, p) ==
    IF ~(n > 0) THEN digits
    ELSE IF i >= Len(digits) THEN PanicDigits
    ELSE decomposed_loop([digits EXCEPT ![i + 1] = n % p], n \div p, i + 1, p)

\* vec![0; num_digits]
RECURSIVE Zeros(_)
Zeros(k) == IF k = 0 THEN <<>> ELSE <<0>> \o Zeros(k - 1)

\* Element::decomposed
decomposed(e, p) ==
    decomposed_loop(Zeros(num_digits(e.q, p)), e.uint, 0, p)

\* Element::recompose: the for loop over the digits, from digit i on
RECURSIVE recompose_loop(_, _, _, _, _)
recompose_loop(vals, i, result, r, p) ==
    IF i > Len(vals) THEN result
    ELSE LET result2 == u64_add(result, u64_mul(r, vals[i]))
             r2 == u64_mul(r, p)
         IN  IF result2 < 0 \/ r2 < 0 THEN -1
             ELSE recompose_loop(vals, i + 1, result2, r2, p)

\* Element::recompose
recompose(p, q, vals) == from(q, recompose_loop(vals, 1, 0, 1, p))

(***************************************************************************)
(* Calls of the element functions.  A call is made on a fresh process      *)
(* (op = "init") that holds no parameter set; the state it leaves records  *)
(* the call and its result.                                                *)
(***************************************************************************)
NoParams == [a |-> <<>>, q |-> 0, p |-> 0, n |-> 0, m |-> 0]

\* The elements Element::from accepts for modulus q.
Elements(q) == {[q |-> q, uint |-> u] : u \in 0..(q - 1)}

InitElement ==
    /\ overflow_checks \in BOOLEAN
    /\ params = NoParams
    /\ secret = <<>>
    /\ op = "init"
    /\ args = <<>>
    /\ ret = <<>>

Call(name, a, r) ==
    /\ op' = name
    /\ args' = a
    /\ ret' = r
    /\ UNCHANGED <<overflow_checks, params, secret>>

CallFrom ==
    /\ op = "init"
    /\ params = NoParams
    /\ \E q \in 0..U64_MAX, uint \in 0..U64_MAX :
            Call("from", [q |-> q, uint |-> uint], from(q, uint))

\* Operands of the binary operators: two elements, of any two moduli
\* Element::from accepts.
CallAdd ==
    /\ op = "init"
    /\ params = NoParams
    /\ \E q \in 1..(U64_MAX - 1) : \E a \in Elements(q) :
            \E b \in Elements(q) \cup {[q |-> q + 1, uint |-> 0]} :
                /\ b.q < U64_MAX
                /\ Call("add", [lhs |-> a, rhs |-> b], add(a, b))

CallAddAssign ==
    /\ op = "init"
    /\ params = NoParams
    /\ \E q \in 1..(U64_MAX - 1) : \E a \in Elements(q) :
            \E b \in Elements(q) \cup {[q |-> q + 1, uint |-> 0]} :
                /\ b.q < U64_MAX
                /\ Call("add_assign", [lhs |-> a, rhs |-> b], add_assign(a, b))

CallSub ==
    /\ op = "init"
    /\ params = NoParams
    /\ \E q \in 1..(U64_MAX - 1) : \E a \in Elements(q) :
            \E b \in Elements(q) \cup {[q |-> q + 1, uint |-> 0]} :
                /\ b.q < U64_MAX
                /\ Call("sub", [lhs |-> a, rhs |-> b], sub(a, b))

CallSubAssign ==
    /\ op = "init"
    /\ params = NoParams
    /\ \E q \in 1..(U64_MAX - 1) : \E a \in Elements(q) :
            \E b \in Elements(q) \cup {[q |-> q + 1, uint |-> 0]} :
                /\ b.q < U64_MAX
                /\ Call("sub_assign", [lhs |-> a, rhs |-> b], sub_assign(a, b))

CallMul ==
    /\ op = "init"
    /\ params = NoParams
    /\ \E q \in 1..(U64_MAX - 1) : \E a \in Elements(q) :
            \E b \in Elements(q) \cup {[q |-> q + 1, uint |-> 0]} :
                /\ b.q < U64_MAX
                /\ Call("mul", [lhs |-> a, rhs |-> b], mul(a, b))

CallMulAssign ==
    /\ op = "init"
    /\ params = NoParams
    /\ \E q \in 1..(U64_MAX - 1) : \E a \in Elements(q) :
            \E b \in Elements(q) \cup {[q |-> q + 1, uint |-> 0]} :
                /\ b.q < U64_MAX
                /\ Call("mul_assign", [lhs |-> a, rhs |-> b], mul_assign(a, b))

\* gen_uniform_rand(q): a rejected draw repeats the loop and changes
\* nothing; the call returns on an accepted draw.
CallGenUniformRand ==
    /\ op = "init"
    /\ params = NoParams
    /\ \E q \in 1..U64_MAX : \E r \in AcceptedDraws(q) :
            Call("gen_uniform_rand", [q |-> q, r |-> r], gen_uniform_rand(q, r))

\* e.decomposed(p) for an element e = Element::from(q, v) and a radix p >= 2
CallDecomposed ==
    /\ op = "init"
    /\ params = NoParams
    /\ \E q \in 1..(U64_MAX - 1) : \E e \in Elements(q) : \E p \in 2..U64_MAX :
            Call("decomposed", [e |-> e, p |-> p], decomposed(e, p))

\* Element::recompose(p, q, &d) on the digits decomposed returned
CallRecompose ==
    /\ op = "decomposed"
    /\ ~IsPanicDigits(ret)
    /\ op' = "recompose"
    /\ args' = [e |-> args.e, p |-> args.p, vals |-> ret]
    /\ ret' = recompose(args.p, args.e.q, ret)
    /\ UNCHANGED <<overflow_checks, params, secret>>

NextElement ==
    \/ CallFrom
    \/ CallAdd
    \/ CallAddAssign
    \/ CallSub
    \/ CallSubAssign
    \/ CallMul
    \/ CallMulAssign
    \/ CallGenUniformRand
    \/ CallDecomposed
    \/ CallRecompose

SpecElement == InitElement /\ [][NextElement]_vars

(***************************************************************************)
(* matrix.rs is not part of the sources at hand: Matrix is modelled from   *)
(* its specification, a rows x cols grid of ring elements kept as a        *)
(* sequence of rows.                                                       *)
(***************************************************************************)
MatPanic == << <<Panic>> >>

\* A panic in one entry's arithmetic unwinds the whole operation.
MatIsPanic(x) == \E i \in 1..Len(x) : \E j \in 1..Len(x[i]) : IsPanic(x[i][j])

\* Matrix::from_single: one element as a 1 x 1 matrix
from_single(e) == << <<e>> >>

SameShape(x, y) ==
    /\ Len(x) = Len(y)
    /\ \A i \in 1..Len(x) : Len(x[i]) = Len(y[i])

\* The ring operation an elementwise matrix operation applies
elem_op(o, a, b) ==
    IF o = "add" THEN add(a, b)
    ELSE IF o = "sub" THEN sub(a, b)
    ELSE mul(a, b)

\* One row of an elementwise operation, from column j on.
RECURSIVE row_zip(_, _, _, _)
row_zip(o, r1, r2, j) ==
    IF j > Len(r1) THEN <<>>
    ELSE <<elem_op(o, r1[j], r2[j])>> \o row_zip(o, r1, r2, j + 1)

\* An elementwise operation on two matrices of one shape, from row i on.
RECURSIVE mat_zip(_, _, _, _)
mat_zip(o, x, y, i) ==
    IF i > Len(x) THEN <<>>
    ELSE <<row_zip(o, x[i], y[i], 1)>> \o mat_zip(o, x, y, i + 1)

\* impl Add / AddAssign for Matrix: elementwise, identical shapes
mat_add(x, y) == IF ~SameShape(x, y) THEN MatPanic ELSE mat_zip("add", x, y, 1)

\* impl Sub for Matrix: elementwise, identical shapes
mat_sub(x, y) == IF ~SameShape(x, y) THEN MatPanic ELSE mat_zip("sub", x, y, 1)

\* impl Mul for Matrix, as encrypt uses it: elementwise, identical shapes
mat_mul(x, y) == IF ~SameShape(x, y) THEN MatPanic ELSE mat_zip("mul", x, y, 1)

\* One row's dot product with the vector, accumulated by ring mul and add.
RECURSIVE dot(_, _, _, _)
dot(row, v, j, acc) ==
    IF j > Len(row) THEN acc
    ELSE dot(row, v, j + 1, add(acc, mul(row[j], v[j])))

\* Matrix::mul_vec: the rows' dot products, from row i on
RECURSIVE mul_vec_rows(_, _, _)
mul_vec_rows(a, v, i) ==
    IF i > Len(a) THEN <<>>
    ELSE << <<dot(a[i], v, 1, zero(a[i][1].q))>> >> \o mul_vec_rows(a, v, i + 1)

\* Matrix::mul_vec: a column vector of the rows' dot products
mul_vec(a, v) ==
    IF \E i \in 1..Len(a) : Len(a[i]) # Len(v) \/ Len(v) = 0 THEN MatPanic
    ELSE mul_vec_rows(a, v, 1)

\* Matrix::from(&vec![vec![zero; n]; m]): m rows of n zeros
RECURSIVE Repeat(_, _)
Repeat(x, k) == IF k = 0 THEN <<>> ELSE <<x>> \o Repeat(x, k - 1)

(***************************************************************************)
(* regev.rs                                                                *)
(***************************************************************************)
\* check_secret_length: the assertion holds
check_secret_length(ps, s) == Len(s) = ps.n

\* check_plaintext_mod: the assertions hold
check_plaintext_mod(ps, plaintext) ==
    plaintext.uint < ps.p /\ plaintext.q = ps.p

\* check_ciphertext_mod: the assertion holds
check_ciphertext_mod(ps, ciphertext) == ciphertext.uint < ps.q

\* check_error_length: the assertion holds
check_error_length(ps, error) == Len(error) = ps.m

\* encrypt
encrypt(ps, s, e, plaintext) ==
    IF ~check_secret_length(ps, s) THEN Panic
    ELSE IF ~check_plaintext_mod(ps, plaintext) THEN Panic
    ELSE IF ~check_error_length(ps, e) THEN Panic
    ELSE LET a_s == mul_vec(ps.a, s)
             b == mat_add(a_s, <<e>>)
             floor == from_single(from(ps.q, ps.q \div ps.p))
             plaintext_as_matrix == from_single(from(ps.q, plaintext.uint))
             c == mat_add(b, mat_mul(floor, plaintext_as_matrix))
         IN  c[1][1]

\* (x as f64 / q as f64).round() as u64: to nearest, halves away from zero
round_div(x, q) == (2 * x + q) \div (2 * q)

\* decrypt
decrypt(ps, s, ciphertext) ==
    IF IsPanic(ciphertext) THEN Panic
    ELSE IF ~check_secret_length(ps, s) THEN Panic
    ELSE IF ~check_ciphertext_mod(ps, ciphertext) THEN Panic
    ELSE LET a_s == mul_vec(ps.a, s)
         IN  IF ciphertext.q # ps.q \/ a_s[1][1].q # ps.q THEN Panic
             ELSE LET raw == mat_sub(from_single(ciphertext), a_s)
                      doubled == u64_mul(raw[1][1].uint, 2)
                  IN  IF doubled < 0 THEN Panic
                      ELSE from(ps.p, round_div(doubled, ps.q) % ps.p)

sample_space == 6
half_sample_space == sample_space \div 2

\* gen_error_vec: the loop, from sample k on
RECURSIVE gen_error_vec_loop(_, _, _)
gen_error_vec_loop(ps, rands, k) ==
    IF k > ps.m THEN <<>>
    ELSE <<sub_assign(from(ps.q, rands[k]), from(ps.q, half_sample_space))>>
         \o gen_error_vec_loop(ps, rands, k + 1)

\* A panic in one element's construction unwinds the call.
VecOf(v) == IF \E k \in 1..Len(v) : IsPanic(v[k]) THEN PanicVec ELSE v

\* gen_error_vec, given the m values gen_uniform_rand(sample_space) drew
gen_error_vec(ps, rands) == VecOf(gen_error_vec_loop(ps, rands, 1))

\* query: the loop, from index i on; rands[i + 1] are the draws of its
\* call of gen_error_vec
RECURSIVE query_loop(_, _, _, _, _, _)
query_loop(ps, idx, s, db_size, rands, i) ==
    IF ~(i < db_size) THEN <<>>
    ELSE LET bit == IF i = idx THEN 1 ELSE 0
             e == gen_error_vec(ps, rands[i + 1])
             enc == IF IsPanicVec(e) THEN Panic
                    ELSE encrypt(ps, s, e, from(ps.p, bit))
         IN  <<enc>> \o query_loop(ps, idx, s, db_size, rands, i + 1)

\* query, given the values its db_size calls of gen_error_vec drew
query(ps, idx, s, db_size, rands) ==
    IF ~(idx < db_size) THEN PanicVec
    ELSE VecOf(query_loop(ps, idx, s, db_size, rands, 0))

NoAnswer == [a |-> MatPanic, c |-> Panic]

\* answer: the loop over the database, from record i on
RECURSIVE answer_loop(_, _, _, _, _, _)
answer_loop(ps, qry, db, i, summed_a, summed_c) ==
    IF i > Len(db) THEN [a |-> summed_a, c |-> summed_c]
    ELSE IF db[i].uint = 1
    THEN IF i > Len(qry) THEN NoAnswer
         ELSE LET a2 == mat_add(summed_a, ps.a)
                  c2 == add_assign(summed_c, qry[i])
              IN  IF MatIsPanic(a2) \/ IsPanic(c2) THEN NoAnswer
                  ELSE answer_loop(ps, qry, db, i + 1, a2, c2)
    ELSE answer_loop(ps, qry, db, i + 1, summed_a, summed_c)

\* answer
answer(ps, qry, db) ==
    answer_loop(ps, qry, db, 1,
                Repeat(Repeat(zero(ps.q), ps.n), ps.m), zero(ps.q))

(***************************************************************************)
(* A session: a parameter set (A uniform mod q, as simple_params draws     *)
(* it) and a secret (as gen_secret draws it).  The implementation fixes    *)
(* m = 1; the model keeps secrets of length 1.  The server of the PIR      *)
(* protocol holds the parameter set and no secret.                         *)
(***************************************************************************)
ParamSets ==
    {[a |-> <<<<[q |-> t[1], uint |-> t[3]]>>>>,
      q |-> t[1], p |-> t[2], n |-> 1, m |-> 1] :
        t \in {u \in (2..MaxQ) \X (2..MaxP) \X (0..(MaxQ - 1)) :
                  u[2] <= u[1] /\ u[3] < u[1]}}

InitSession ==
    /\ overflow_checks \in BOOLEAN
    /\ params \in ParamSets
    /\ secret \in {<<x>> : x \in Elements(params.q)}
    /\ op = "init"
    /\ args = <<>>
    /\ ret = <<>>

\* The parameter sets a server may be handed: any modulus Element::from
\* accepts, here up to MaxServerQ.
ServerParamSets ==
    {[a |-> <<<<[q |-> t[1], uint |-> t[3]]>>>>,
      q |-> t[1], p |-> t[2], n |-> 1, m |-> 1] :
        t \in {u \in (2..MaxServerQ) \X (2..MaxP) \X (0..(MaxServerQ - 1)) :
                  u[1] < U64_MAX /\ u[2] <= u[1] /\ u[3] < u[1]}}

InitServer ==
    /\ overflow_checks \in BOOLEAN
    /\ params \in ServerParamSets
    /\ secret = <<>>
    /\ op = "init"
    /\ args = <<>>
    /\ ret = <<>>

\* The draws of gen_uniform_rand(sample_space)
Rands == 0..(sample_space - 1)

\* Error vectors of m elements mod q; encrypt does not check their range.
ErrorVecs == {<<x>> : x \in Elements(params.q)}

\* The plaintext bits 0 and 1 as elements mod p
Bits == {b \in Elements(params.p) : b.uint <= 1}

CallGenErrorVec ==
    /\ op = "init"
    /\ params # NoParams
    /\ \E rands \in [1..params.m -> Rands] :
            Call("gen_error_vec", [rands |-> rands], gen_error_vec(params, rands))

\* encrypt on any error vector of elements mod q, on vectors of the wrong
\* length, and on plaintexts mod p and mod q.
CallEncrypt ==
    /\ op = "init"
    /\ secret # <<>>
    /\ \E s \in {secret, <<>>, secret \o secret} :
       \E e \in ErrorVecs \cup {<<>>, <<zero(params.q), zero(params.q)>>} :
       \E plaintext \in Elements(params.p) \cup Elements(params.q) :
            Call("encrypt", [secret |-> s, e |-> e, plaintext |-> plaintext],
                 encrypt(params, s, e, plaintext))

\* decrypt on any ciphertext mod q
CallDecrypt ==
    /\ op = "init"
    /\ secret # <<>>
    /\ \E ciphertext \in Elements(params.q) :
            Call("decrypt", [ciphertext |-> ciphertext],
                 decrypt(params, secret, ciphertext))

\* encrypt_and_decrypt_impl, on any plaintext bit and error vector:
\* the decryption of the ciphertext encrypt returned.
CallEncryptAndDecrypt ==
    /\ op = "init"
    /\ secret # <<>>
    /\ \E e \in ErrorVecs : \E plaintext \in Bits :
       \E ciphertext \in {encrypt(params, secret, e, plaintext)} :
            Call("encrypt_and_decrypt",
                 [e |-> e, plaintext |-> plaintext, ciphertext |-> ciphertext],
                 decrypt(params, secret, ciphertext))

\* homomorphic_addition_impl, on any two plaintext bits and error vectors:
\* the sum of the two ciphertexts decrypted under A + A.
CallHomomorphicAddition ==
    /\ op = "init"
    /\ secret # <<>>
    /\ \E e_0 \in ErrorVecs : \E e_1 \in ErrorVecs :
       \E plaintext_0 \in Bits : \E plaintext_1 \in Bits :
       \E ciphertext_0 \in {encrypt(params, secret, e_0, plaintext_0)} :
       \E ciphertext_1 \in {encrypt(params, secret, e_1, plaintext_1)} :
       \E a_n \in {mat_add(params.a, params.a)} :
       \E ciphertext_n \in {add(ciphertext_0, ciphertext_1)} :
       \E plaintext_n \in {add(plaintext_0, plaintext_1)} :
            Call("homomorphic_addition",
                 [e_0 |-> e_0, e_1 |-> e_1,
                  plaintext_0 |-> plaintext_0, plaintext_1 |-> plaintext_1,
                  ciphertext_n |-> ciphertext_n, plaintext_n |-> plaintext_n],
                 IF MatIsPanic(a_n) THEN Panic
                 ELSE decrypt([params EXCEPT !.a = a_n], secret, ciphertext_n))

\* query: an index at or past db_size fails before any noise is drawn
CallQuery ==
    /\ op = "init"
    /\ secret # <<>>
    /\ \E db_size \in 0..MaxDb : \E idx \in 0..db_size :
       \E rands \in IF idx < db_size
                    THEN [1..db_size -> [1..params.m -> Rands]] ELSE {<<>>} :
            Call("query", [idx |-> idx, db_size |-> db_size, rands |-> rands],
                 query(params, idx, secret, db_size, rands))

\* Databases of one-bit records, as gen_db draws them
Dbs(db_size) == [1..db_size -> Elements(2)]

\* answer on any query of elements mod q and any database of as many records
CallAnswer ==
    /\ op = "init"
    /\ params # NoParams
    /\ secret = <<>>
    /\ \E db_size \in 0..MaxDb :
       \E qry \in [1..db_size -> Elements(params.q)] : \E db \in Dbs(db_size) :
            Call("answer", [query |-> qry, db |-> db], answer(params, qry, db))

\* test_pir_impl, on any database and index: query, answer, and the
\* decryption of the summed ciphertext under the summed matrix.
CallTestPir ==
    /\ op = "init"
    /\ secret # <<>>
    /\ \E db_size \in 1..MaxDb : \E desired_idx \in 0..(db_size - 1) :
       \E rands \in [1..db_size -> [1..params.m -> Rands]] :
       \E qry \in {query(params, desired_idx, secret, db_size, rands)} :
       \E db \in Dbs(db_size) :
       \E ans \in {IF IsPanicVec(qry) THEN NoAnswer ELSE answer(params, qry, db)} :
            Call("test_pir",
                 [desired_idx |-> desired_idx, rands |-> rands, db |-> db,
                  query |-> qry, answer |-> ans],
                 IF ans = NoAnswer THEN Panic
                 ELSE decrypt([params EXCEPT !.a = ans.a], secret, ans.c))

NextRegev ==
    \/ CallGenErrorVec
    \/ CallDecrypt
    \/ CallEncryptAndDecrypt
    \/ CallHomomorphicAddition
    \/ CallTestPir

\* The scheme and the protocol's client side, on every session.
SpecRegev == InitSession /\ [][NextRegev]_vars

\* The protocol's server side.
SpecServer == InitServer /\ [][CallAnswer]_vars

NextBoundary ==
    \/ CallFrom
    \/ CallEncrypt
    \/ CallQuery

\* The constructors and entry points that check their inputs.
SpecBoundary == (InitElement \/ InitSession) /\ [][NextBoundary]_vars

Init == InitElement \/ InitSession \/ InitServer

Next == NextElement \/ NextRegev \/ NextBoundary \/ CallAnswer

Spec == Init /\ [][Next]_vars

(***************************************************************************)
(* Properties.  The arithmetic they state is that of the integers, apart   *)
(* from the u64 operations of the code.                                    *)
(***************************************************************************)
Abs(x) == IF x < 0 THEN -x ELSE x

\* The noise an element mod q stands for, centred on zero
Centred(e) == IF 2 * e.uint < e.q THEN e.uint ELSE e.uint - e.q

\* A noise of magnitude x is below the budget q / (2p)
BelowBudget(x) == 2 * params.p * Abs(x) < params.q

\* x / y rounded to nearest, halves away from zero (x >= 0, y > 0)
Nearest(x, y) == (2 * x + y) \div (2 * y)

\* A . secret over the integers (A has one row)
RECURSIVE SumProd(_, _, _)
SumProd(row, v, j) ==
    IF j > Len(row) THEN 0
    ELSE row[j].uint * v[j].uint + SumProd(row, v, j + 1)

\* C1: within the noise budget, decrypting what encrypt returned for the
\* bit b yields b.
RoundTrip ==
    (op = "encrypt_and_decrypt" /\ args.plaintext.uint \in {0, 1}
        /\ BelowBudget(Centred(args.e[1])))
        => ret = args.plaintext

\* C3: with the combined noise under the budget, the sum of two
\* ciphertexts decrypts under A + A to (b0 + b1) mod p.
HomomorphicSum ==
    (op = "homomorphic_addition"
        /\ args.plaintext_0.uint \in {0, 1} /\ args.plaintext_1.uint \in {0, 1}
        /\ BelowBudget(Centred(args.e_0[1]) + Centred(args.e_1[1])))
        => ret = [q |-> params.p,
                  uint |-> (args.plaintext_0.uint + args.plaintext_1.uint)
                              % params.p]

\* C8: decrypt returns round(p * r / q) mod p as an element mod p, for the
\* residual r = (c - A . secret) mod q.
DecryptRescalesByP ==
    op = "decrypt" =>
        LET a_s == SumProd(params.a[1], secret, 1)
            r == (args.ciphertext.uint + a_s * params.q - a_s) % params.q
        IN  ret = [q |-> params.p,
                   uint |-> Nearest(params.p * r, params.q) % params.p]

\* The error values gen_error_vec can return under the session's parameters
ErrorValues ==
    {gen_error_vec(params, <<r>>)[1] : r \in Rands} \ {Panic}

\* C9: gen_error_vec returns m elements mod q, and the negation of every
\* value it can return is a value it can return.
ErrorRangeSymmetric ==
    (op = "gen_error_vec" /\ ~IsPanicVec(ret)) =>
        /\ Len(ret) = params.m
        /\ \A k \in 1..Len(ret) :
            /\ ret[k].q = params.q
            /\ ret[k].uint < params.q
            /\ [q |-> params.q, uint |-> (params.q - ret[k].uint) % params.q]
                   \in ErrorValues

\* The noise test_pir_impl's answer sums: that of the ciphertexts whose
\* record is 1 (a ciphertext's noise is its draw less half_sample_space)
RECURSIVE SelectedNoise(_, _, _)
SelectedNoise(rands, db, i) ==
    IF i > Len(db) THEN 0
    ELSE (IF db[i].uint = 1 THEN rands[i][1] - half_sample_space ELSE 0)
         + SelectedNoise(rands, db, i + 1)

\* C2: when query and answer return and the summed noise is within the
\* budget, decoding the answer yields the record at the queried index.
PirCorrect ==
    (op = "test_pir" /\ ~IsPanicVec(args.query) /\ args.answer # NoAnswer
        /\ BelowBudget(SelectedNoise(args.rands, args.db, 1)))
        => (~IsPanic(ret) /\ ret.uint = args.db[args.desired_idx + 1].uint)

\* C4: decomposed completes, and recompose returns the element decomposed.
DecompositionRoundTrip ==
    /\ op = "decomposed" => ~IsPanicDigits(ret)
    /\ op = "recompose" => ret = args.e

\* The accepted raw draws that gen_uniform_rand(q) maps to the residue v
DrawsOf(q, v) == Cardinality({r \in AcceptedDraws(q) : r % q = v})

\* C5: gen_uniform_rand(q) returns a value of [0, q), and every residue is
\* produced by as many accepted raw draws as the one returned.
UniformSampling ==
    (op = "gen_uniform_rand" /\ args.q < U64_MAX) =>
        /\ ~IsPanic(ret)
        /\ ret.q = args.q
        /\ ret.uint \in 0..(args.q - 1)
        /\ \A v \in 0..(args.q - 1) : DrawsOf(args.q, v) = DrawsOf(args.q, ret.uint)

\* C6: on operands of one modulus q, add, sub and mul (and their assigning
\* forms) return the sum, difference and product mod q; on operands of
\* different moduli they fail.
RingArithmetic ==
    LET a == args.lhs
        b == args.rhs
        exact(x) == [q |-> a.q, uint |-> x % a.q]
    IN  /\ (op \in {"add", "add_assign", "sub", "sub_assign", "mul", "mul_assign"}
              /\ a.q # b.q) => IsPanic(ret)
        /\ (op \in {"add", "add_assign"} /\ a.q = b.q)
              => ret = exact(a.uint + b.uint)
        /\ (op \in {"sub", "sub_assign"} /\ a.q = b.q)
              => ret = exact(a.uint + a.q - b.uint)
        /\ (op \in {"mul", "mul_assign"} /\ a.q = b.q)
              => ret = exact(a.uint * b.uint)

\* C7: from fails on a value at or past the modulus and on the modulus
\* U64_MAX; encrypt fails on a secret whose length is not n, an error
\* vector whose length is not m and a plaintext whose modulus is not p;
\* query fails on an index at or past db_size.  Nothing is returned then.
BoundaryFailures ==
    /\ (op = "from" /\ (args.uint >= args.q \/ args.q = U64_MAX))
          => IsPanic(ret)
    /\ (op = "encrypt" /\ (\/ Len(args.secret) # params.n
                           \/ Len(args.e) # params.m
                           \/ args.plaintext.q # params.p))
          => IsPanic(ret)
    /\ (op = "query" /\ args.idx >= args.db_size) => IsPanicVec(ret)

\* A plaintext of the wrong modulus, with a secret and an error vector of
\* the right lengths, made encrypt fail.
BoundaryFailuresWitness ==
    /\ op = "encrypt"
    /\ Len(args.secret) = params.n
    /\ Len(args.e) = params.m
    /\ args.plaintext.q # params.p
    /\ args.plaintext.uint < params.p
    /\ IsPanic(ret)

\* The records of db that are 1
Selected(db) == {i \in 1..Len(db) : db[i].uint = 1}

\* The sum over the integers of the ciphertexts of the selected records
RECURSIVE SelectedSum(_, _, _)
SelectedSum(qry, db, i) ==
    IF i > Len(db) THEN 0
    ELSE (IF db[i].uint = 1 THEN qry[i].uint ELSE 0) + SelectedSum(qry, db, i + 1)

\* C10: answer returns the ring sum of the ciphertexts whose record is 1
\* (zero when there is none) and an m x n matrix whose entries are k times
\* those of A mod q, for k the number of those records.
AnswerAccumulates ==
    op = "answer" =>
        LET k == Cardinality(Selected(args.db))
        IN  /\ ret.c = [q |-> params.q,
                        uint |-> SelectedSum(args.query, args.db, 1) % params.q]
            /\ Len(ret.a) = params.m
            /\ \A i \in 1..params.m :
                /\ Len(ret.a[i]) = params.n
                /\ \A j \in 1..params.n :
                    ret.a[i][j] = [q |-> params.q,
                                   uint |-> (k * params.a[i][j].uint) % params.q]

====
